---- MODULE Spec2Model ----
(***************************************************************************)
(* PlanTable: the seating-plan algorithm of apps/web/src/lib/algorithm.ts. *)
(*                                                                         *)
(* One run of generateSeatingPlan is modelled as a state machine: the      *)
(* input bundle (guests, couples, exclusions, configuration) is chosen in  *)
(* Init, and the actions follow the numbered sections of the function:     *)
(* validation, table creation, honor table, sequencing, the placement      *)
(* loop (one iteration per step) and the final shuffle and return.         *)
(*                                                                         *)
(* A guest is identified by its id; the id of the i-th guest of the input  *)
(* list is i.  Tables hold guest ids in seating order.  A family name is a *)
(* sequence of characters, so that toLowerCase and trim are computed.      *)
(***************************************************************************)
EXTENDS Integers, Sequences, FiniteSets, TLC

VARIABLES
    input,          \* AlgorithmInput: guests, couples, exclusions, configuration
    pc,             \* position inside generateSeatingPlan
    result,         \* SeatingPlanResult fields success / errors ("none" before return)
    tables,         \* tables: sequence of Table (number, capacity, guests)
    warnings,       \* warnings: sequence of Warning
    honorTableGuestIds, \* set of ids seated at the honor table by section 3
    orderedGuests,  \* placement order computed by sections 5 and 6
    cursor,         \* index of the next element of orderedGuests (the for..of loop)
    placedGuestIds, \* placedGuestIds
    familyTableMap, \* familyTableMap: normalized family name -> table id
    lastStep,       \* the last decision of the placement loop (what debug.log records)
    previous        \* the caller's side: the input and the result of the call before
                    \* this one, when generate is called again (Regenerate)

vars == <<input, pc, result, tables, warnings, honorTableGuestIds, orderedGuests,
          cursor, placedGuestIds, familyTableMap, lastStep, previous>>

----------------------------------------------------------------------------
(* Bounds of the model *)

MaxGuests == 3
MaxSeats == 2
MaxTables == 2
MaxHonorSeats == 2

----------------------------------------------------------------------------
(* Utility functions *)

NoGuest == 0

GuestIds(guests) == 1..Len(guests)

\* String.prototype.toLowerCase on the characters of the model
LowerChar(c) == IF c = "D" THEN "d" ELSE IF c = "M" THEN "m" ELSE c

ToLowerCase(s) == [i \in 1..Len(s) |-> LowerChar(s[i])]

\* String.prototype.trim: strips the leading and trailing blanks
RECURSIVE TrimLeft(_)
TrimLeft(s) == IF s # <<>> /\ Head(s) = " " THEN TrimLeft(Tail(s)) ELSE s

RECURSIVE TrimRight(_)
TrimRight(s) ==
    IF s # <<>> /\ s[Len(s)] = " " THEN TrimRight(SubSeq(s, 1, Len(s) - 1)) ELSE s

Trim(s) == TrimRight(TrimLeft(s))

\* guest.lastName?.toLowerCase().trim()  (<<>> stands for undefined and for '')
NormalizedFamily(lastName) == Trim(ToLowerCase(lastName))

\* haveExclusion(guestA, guestB, exclusions)
HaveExclusion(a, b, exclusions) ==
    \E i \in 1..Len(exclusions) :
        \/ (exclusions[i].guestAId = a /\ exclusions[i].guestBId = b)
        \/ (exclusions[i].guestAId = b /\ exclusions[i].guestBId = a)

\* exclusions.some(e => e.guestAId === g.id || e.guestBId === g.id)
HasAnyExclusion(g, exclusions) ==
    \E i \in 1..Len(exclusions) :
        exclusions[i].guestAId = g \/ exclusions[i].guestBId = g

\* getCouplePartner(guest, couples, allGuests): the other member of the FIRST
\* couple that contains the guest, if it is a guest of the list
GetCouplePartner(g, couples, guests) ==
    LET idx == {i \in 1..Len(couples) :
                    couples[i].guestAId = g \/ couples[i].guestBId = g}
    IN  IF idx = {} THEN NoGuest
        ELSE LET i == CHOOSE k \in idx : \A m \in idx : k <= m
                 partnerId == IF couples[i].guestAId = g
                              THEN couples[i].guestBId ELSE couples[i].guestAId
             IN  IF partnerId \in GuestIds(guests) THEN partnerId ELSE NoGuest

\* isAutoGeneratedGuest: `${firstName} ${lastName ?? ''}`.trim() matches
\* /^(Invité|Guest)\s+\d+$/ ; the first names of the model are "Ann" and the two
\* filler forms, the family names hold no digit
FillerFirstNames == {"Invité 7", "Guest 7"}

IsAutoGeneratedGuest(guest) ==
    guest.firstName \in FillerFirstNames /\ Trim(guest.lastName) = <<>>

IsHonorRole(guest) == guest.role = "married" \/ guest.role = "witness"

\* guests.filter(pred) on a sequence of ids
RECURSIVE FilterSeq(_, _)
FilterSeq(s, keep) ==
    IF s = <<>> THEN <<>>
    ELSE IF Head(s) \in keep THEN <<Head(s)>> \o FilterSeq(Tail(s), keep)
         ELSE FilterSeq(Tail(s), keep)

SeqRange(s) == {s[i] : i \in 1..Len(s)}

IdSeq(guests) == [i \in 1..Len(guests) |-> i]

----------------------------------------------------------------------------
(* Validation *)

\* findCoupleGroups: the inner dfs(guestId, group), st = [visited, group]
RECURSIVE Dfs(_, _, _), DfsCouples(_, _, _, _)
Dfs(guestId, st, couples) ==
    IF guestId \in st.visited THEN st
    ELSE DfsCouples(guestId, 1,
                    [visited |-> st.visited \cup {guestId},
                     group |-> Append(st.group, guestId)], couples)

\* mutant of DfsCouples: a couple is followed from guestAId to guestBId only
DfsCouplesForwardOnly(guestId, i, st, couples) ==
    IF i > Len(couples) THEN st
    ELSE LET c == couples[i]
             s1 == IF c.guestAId = guestId /\ c.guestBId \notin st.visited
                   THEN Dfs(c.guestBId, st, couples) ELSE st
         IN  DfsCouples(guestId, i + 1, s1, couples)

DfsCouples(guestId, i, st, couples) ==
    IF i > Len(couples) THEN st
    ELSE LET c == couples[i]
             s1 == IF c.guestAId = guestId /\ c.guestBId \notin st.visited
                   THEN Dfs(c.guestBId, st, couples) ELSE st
             s2 == IF c.guestBId = guestId /\ c.guestAId \notin s1.visited
                   THEN Dfs(c.guestAId, s1, couples) ELSE s1
         IN  DfsCouples(guestId, i + 1, s2, couples)

\* findCoupleGroups: the guests.forEach loop, then the filter on length > 1
RECURSIVE CoupleGroupsFrom(_, _, _, _)
CoupleGroupsFrom(i, visited, guests, couples) ==
    IF i > Len(guests) THEN <<>>
    ELSE IF i \in visited THEN CoupleGroupsFrom(i + 1, visited, guests, couples)
    ELSE LET st == Dfs(i, [visited |-> visited, group |-> <<>>], couples)
             rest == CoupleGroupsFrom(i + 1, st.visited, guests, couples)
         IN  IF Len(st.group) > 1 THEN <<st.group>> \o rest ELSE rest

FindCoupleGroups(guests, couples) == CoupleGroupsFrom(1, {}, guests, couples)

\* mutant of HonorSet: the partners are forgotten
HonorSetWithoutPartners(guests, couples) ==
    {g \in GuestIds(guests) : IsHonorRole(guests[g])}

\* honorTableWithPartners / honorTableGuestIds: the role-qualified guests and the
\* partner of each
HonorSet(guests, couples) ==
    LET honor == {g \in GuestIds(guests) : IsHonorRole(guests[g])}
    IN  (honor \cup {GetCouplePartner(g, couples, guests) : g \in honor}) \ {NoGuest}

ErrNoGuests == [kind |-> "no_guests", guestIds |-> <<>>, size |-> 0, capacity |-> 0]

ErrHonorCapacity(size, seats) ==
    [kind |-> "honor_capacity", guestIds |-> <<>>, size |-> size, capacity |-> seats]

ErrCoupleExclusion(a, b) ==
    [kind |-> "couple_exclusion", guestIds |-> <<a, b>>, size |-> 0, capacity |-> 0]

ErrGroupCapacity(group, cap) ==
    [kind |-> "group_capacity", guestIds |-> group, size |-> Len(group), capacity |-> cap]

\* mutant of ExclusionGraph: the edge is added in one direction only
ExclusionGraphOneWay(guests, exclusions) ==
    [g \in GuestIds(guests) |->
        {exclusions[i].guestBId : i \in {k \in 1..Len(exclusions) : exclusions[k].guestAId = g}}]

\* lines 111-120: exclusionGraph, a key per guest of the list, an edge in both
\* directions per exclusion
ExclusionGraph(guests, exclusions) ==
    [g \in GuestIds(guests) |->
        {exclusions[i].guestBId : i \in {k \in 1..Len(exclusions) : exclusions[k].guestAId = g}}
        \cup
        {exclusions[i].guestAId : i \in {k \in 1..Len(exclusions) : exclusions[k].guestBId = g}}]

\* check 4: couples.forEach, the error needs both members to be guests of the list
RECURSIVE CoupleExclusionErrors(_, _, _, _)
CoupleExclusionErrors(i, guests, couples, exclusionGraph) ==
    IF i > Len(couples) THEN <<>>
    ELSE LET c == couples[i]
             inGraph == /\ c.guestAId \in DOMAIN exclusionGraph
                        /\ c.guestBId \in exclusionGraph[c.guestAId]
             rest == CoupleExclusionErrors(i + 1, guests, couples, exclusionGraph)
         IN  IF inGraph /\ c.guestBId \in GuestIds(guests)
             THEN <<ErrCoupleExclusion(c.guestAId, c.guestBId)>> \o rest
             ELSE rest

\* mutant of GroupCapacityErrors: every group is held to seatsPerTable
RECURSIVE GroupCapacityErrorsStandardOnly(_, _, _, _)
GroupCapacityErrorsStandardOnly(i, groups, honorWithPartners, configuration) ==
    IF i > Len(groups) THEN <<>>
    ELSE LET group == groups[i]
             rest == GroupCapacityErrorsStandardOnly(i + 1, groups, honorWithPartners,
                                                     configuration)
         IN  IF Len(group) > configuration.seatsPerTable
             THEN <<ErrGroupCapacity(group, configuration.seatsPerTable)>> \o rest
             ELSE rest

\* check 6: coupleGroups.forEach
RECURSIVE GroupCapacityErrors(_, _, _, _)
GroupCapacityErrors(i, groups, honorWithPartners, configuration) ==
    IF i > Len(groups) THEN <<>>
    ELSE LET group == groups[i]
             groupInHonorTable == \E k \in 1..Len(group) : group[k] \in honorWithPartners
             maxCapacity == IF groupInHonorTable THEN configuration.honorTableSeats
                            ELSE configuration.seatsPerTable
             rest == GroupCapacityErrors(i + 1, groups, honorWithPartners, configuration)
         IN  IF Len(group) > maxCapacity
             THEN <<ErrGroupCapacity(group, maxCapacity)>> \o rest
             ELSE rest

\* mutant of ValidateConfiguration: the checks stop at the first error
ValidateFirstErrorOnly(in) ==
    IF Len(in.guests) = 0 THEN [isValid |-> FALSE, errors |-> <<ErrNoGuests>>]
    ELSE LET honorTableWithPartners == HonorSet(in.guests, in.couples)
             e2 == IF Cardinality(honorTableWithPartners) > in.configuration.honorTableSeats
                   THEN <<ErrHonorCapacity(Cardinality(honorTableWithPartners),
                                           in.configuration.honorTableSeats)>>
                   ELSE <<>>
             e4 == CoupleExclusionErrors(1, in.guests, in.couples,
                                         ExclusionGraph(in.guests, in.exclusions))
             e6 == GroupCapacityErrors(1, FindCoupleGroups(in.guests, in.couples),
                                       honorTableWithPartners, in.configuration)
             errors == e2 \o e4 \o e6
         IN  [isValid |-> Len(errors) = 0,
              errors |-> IF errors = <<>> THEN <<>> ELSE <<Head(errors)>>]

\* validateConfiguration(input)
ValidateConfiguration(in) ==
    IF Len(in.guests) = 0 THEN [isValid |-> FALSE, errors |-> <<ErrNoGuests>>]
    ELSE LET honorTableWithPartners == HonorSet(in.guests, in.couples)
             e2 == IF Cardinality(honorTableWithPartners) > in.configuration.honorTableSeats
                   THEN <<ErrHonorCapacity(Cardinality(honorTableWithPartners),
                                           in.configuration.honorTableSeats)>>
                   ELSE <<>>
             e4 == CoupleExclusionErrors(1, in.guests, in.couples,
                                         ExclusionGraph(in.guests, in.exclusions))
             e6 == GroupCapacityErrors(1, FindCoupleGroups(in.guests, in.couples),
                                       honorTableWithPartners, in.configuration)
             errors == e2 \o e4 \o e6
         IN  [isValid |-> Len(errors) = 0, errors |-> errors]

----------------------------------------------------------------------------
(* Sequencing: sortGuests and the family grouping of section 6 *)

\* Array.prototype.sort is stable: each element is inserted behind the last
\* element that does not compare greater.  cmp[x, y] is the comparator's result.
RECURSIVE InsertSorted(_, _, _)
InsertSorted(sorted, x, cmp) ==
    IF sorted = <<>> THEN <<x>>
    ELSE LET last == sorted[Len(sorted)]
         IN  IF cmp[last, x] > 0
             THEN Append(InsertSorted(SubSeq(sorted, 1, Len(sorted) - 1), x, cmp), last)
             ELSE Append(sorted, x)

RECURSIVE StableSort(_, _)
StableSort(s, cmp) ==
    IF s = <<>> THEN <<>>
    ELSE InsertSorted(StableSort(SubSeq(s, 1, Len(s) - 1), cmp), s[Len(s)], cmp)

CharRank(c) == CASE c = " " -> 0 [] c = "d" -> 1 [] c = "m" -> 2 [] OTHER -> 3

\* a.localeCompare(b) on normalized family names
RECURSIVE LocaleCompare(_, _)
LocaleCompare(a, b) ==
    IF a = <<>> /\ b = <<>> THEN 0
    ELSE IF a = <<>> THEN -1
    ELSE IF b = <<>> THEN 1
    ELSE IF CharRank(Head(a)) < CharRank(Head(b)) THEN -1
    ELSE IF CharRank(Head(a)) > CharRank(Head(b)) THEN 1
    ELSE LocaleCompare(Tail(a), Tail(b))

RoleOrder(role) == CASE role = "married" -> 0 [] role = "witness" -> 1 [] OTHER -> 2

\* mutant of SortGuestsCompare: the priority of the exclusions is dropped
SortGuestsCompareWithoutExclusions(a, b, guests, sortingCriteria, exclusions) ==
    LET aIsAuto == IsAutoGeneratedGuest(guests[a])
        bIsAuto == IsAutoGeneratedGuest(guests[b])
    IN  IF aIsAuto /\ ~bIsAuto THEN 1
        ELSE IF ~aIsAuto /\ bIsAuto THEN -1
        ELSE 0

\* the comparator of the sort in sortGuests
SortGuestsCompare(a, b, guests, sortingCriteria, exclusions) ==
    LET aHasExclusion == HasAnyExclusion(a, exclusions)
        bHasExclusion == HasAnyExclusion(b, exclusions)
        aIsAuto == IsAutoGeneratedGuest(guests[a])
        bIsAuto == IsAutoGeneratedGuest(guests[b])
        roleCompare == RoleOrder(guests[a].role) - RoleOrder(guests[b].role)
        familyCompare == LocaleCompare(NormalizedFamily(guests[a].lastName),
                                       NormalizedFamily(guests[b].lastName))
    IN  IF aHasExclusion /\ ~bHasExclusion THEN -1
        ELSE IF ~aHasExclusion /\ bHasExclusion THEN 1
        ELSE IF aIsAuto /\ ~bIsAuto THEN 1
        ELSE IF ~aIsAuto /\ bIsAuto THEN -1
        ELSE IF sortingCriteria.byRole /\ roleCompare # 0 THEN roleCompare
        ELSE IF /\ sortingCriteria.byFamily
                /\ guests[a].lastName # <<>> /\ guests[b].lastName # <<>>
                /\ familyCompare # 0 THEN familyCompare
        ELSE IF sortingCriteria.byAge /\ guests[a].age # <<>> /\ guests[b].age # <<>>
             THEN guests[a].age[1] - guests[b].age[1]
        ELSE 0

\* sortGuests(guests, config, couples, exclusions) on the remaining guests
SortGuests(remaining, guests, sortingCriteria, exclusions) ==
    StableSort(remaining,
               [a \in SeqRange(remaining), b \in SeqRange(remaining) |->
                    SortGuestsCompare(a, b, guests, sortingCriteria, exclusions)])

\* the comparator "guests with an exclusion first" (lines 407-413 and 433-439)
ExclusionFirstCompare(a, b, exclusions) ==
    LET aHasExclusion == HasAnyExclusion(a, exclusions)
        bHasExclusion == HasAnyExclusion(b, exclusions)
    IN  IF aHasExclusion /\ ~bHasExclusion THEN -1
        ELSE IF ~aHasExclusion /\ bHasExclusion THEN 1
        ELSE 0

SortExclusionFirst(s, exclusions) ==
    StableSort(s, [a \in SeqRange(s), b \in SeqRange(s) |->
                        ExclusionFirstCompare(a, b, exclusions)])

\* the key of groupByFamily: lastName?.toLowerCase().trim() || '_no_family_'
NoFamilyKey == <<"_no_family_">>

FamilyKey(guest) ==
    IF NormalizedFamily(guest.lastName) = <<>> THEN NoFamilyKey
    ELSE NormalizedFamily(guest.lastName)

\* groupByFamily: a Map keeps its keys in insertion order
RECURSIVE GroupByFamily(_, _)
GroupByFamily(s, guests) ==
    IF s = <<>> THEN <<>>
    ELSE LET key == FamilyKey(guests[Head(s)])
             same == {g \in SeqRange(s) : FamilyKey(guests[g]) = key}
         IN  <<FilterSeq(s, same)>> \o GroupByFamily(FilterSeq(s, SeqRange(s) \ same), guests)

\* lines 371-383: one family group extended by the partners, st = [group, processed]
RECURSIVE ExtendGroup(_, _, _, _, _, _)
ExtendGroup(group, j, st, guests, couples, honorIds) ==
    IF j > Len(group) THEN st
    ELSE LET member == group[j]
             partner == GetCouplePartner(member, couples, guests)
             withMember == [group |-> Append(st.group, member),
                            processed |-> st.processed \cup {member}]
             withPartner == [group |-> Append(withMember.group, partner),
                             processed |-> withMember.processed \cup {partner}]
         IN  IF member \in st.processed
             THEN ExtendGroup(group, j + 1, st, guests, couples, honorIds)
             ELSE IF /\ partner # NoGuest
                     /\ partner \notin withMember.processed
                     /\ partner \notin honorIds
                  THEN ExtendGroup(group, j + 1, withPartner, guests, couples, honorIds)
                  ELSE ExtendGroup(group, j + 1, withMember, guests, couples, honorIds)

\* lines 365-388: extendedFamilyGroups
RECURSIVE ExtendFamilyGroups(_, _, _, _, _, _)
ExtendFamilyGroups(familyGroups, i, processed, guests, couples, honorIds) ==
    IF i > Len(familyGroups) THEN <<>>
    ELSE LET st == ExtendGroup(familyGroups[i], 1,
                               [group |-> <<>>, processed |-> processed],
                               guests, couples, honorIds)
             rest == ExtendFamilyGroups(familyGroups, i + 1, st.processed,
                                        guests, couples, honorIds)
         IN  IF Len(st.group) > 0 THEN <<st.group>> \o rest ELSE rest

GroupHasExclusion(group, exclusions) ==
    \E k \in 1..Len(group) : HasAnyExclusion(group[k], exclusions)

\* the comparator of extendedFamilyGroups.sort (lines 391-403)
ExtendedGroupCompare(groupA, groupB, exclusions) ==
    LET sizeDiff == Len(groupB) - Len(groupA)
        aHasExclusion == GroupHasExclusion(groupA, exclusions)
        bHasExclusion == GroupHasExclusion(groupB, exclusions)
    IN  IF sizeDiff # 0 THEN sizeDiff
        ELSE IF aHasExclusion /\ ~bHasExclusion THEN -1
        ELSE IF ~aHasExclusion /\ bHasExclusion THEN 1
        ELSE 0

RECURSIVE Flat(_)
Flat(groups) == IF groups = <<>> THEN <<>> ELSE Head(groups) \o Flat(Tail(groups))

\* section 6, branch byFamily (lines 350-417)
OrderByFamily(remainingGuests, guests, couples, exclusions, honorIds) ==
    LET auto == {g \in SeqRange(remainingGuests) : IsAutoGeneratedGuest(guests[g])}
        realGuestsAll == FilterSeq(remainingGuests, SeqRange(remainingGuests) \ auto)
        autoGeneratedAll == FilterSeq(remainingGuests, auto)
        groups == GroupByFamily(realGuestsAll, guests)
        familyGroups ==
            StableSort(groups, [a \in SeqRange(groups), b \in SeqRange(groups) |->
                                    Len(b) - Len(a)])
        extended == ExtendFamilyGroups(familyGroups, 1, {}, guests, couples, honorIds)
        extendedFamilyGroups ==
            StableSort(extended, [a \in SeqRange(extended), b \in SeqRange(extended) |->
                                      ExtendedGroupCompare(a, b, exclusions)])
        sortedFamilyGroups ==
            [i \in 1..Len(extendedFamilyGroups) |->
                SortExclusionFirst(extendedFamilyGroups[i], exclusions)]
    IN  Flat(sortedFamilyGroups) \o autoGeneratedAll

\* mutant of OrderWithoutFamily: the auto-generated guests are not appended
OrderWithoutFamilyDroppingFillers(remainingGuests, guests, exclusions) ==
    LET auto == {g \in SeqRange(remainingGuests) : IsAutoGeneratedGuest(guests[g])}
    IN  SortExclusionFirst(FilterSeq(remainingGuests, SeqRange(remainingGuests) \ auto),
                           exclusions)

\* mutant of OrderWithoutFamily: the auto-generated guests are put first
OrderWithoutFamilyFillersFirst(remainingGuests, guests, exclusions) ==
    LET auto == {g \in SeqRange(remainingGuests) : IsAutoGeneratedGuest(guests[g])}
        realGuestsAll == FilterSeq(remainingGuests, SeqRange(remainingGuests) \ auto)
        autoGeneratedAll == FilterSeq(remainingGuests, auto)
    IN  autoGeneratedAll \o SortExclusionFirst(realGuestsAll, exclusions)

\* section 6, branch without family grouping (lines 427-443)
OrderWithoutFamily(remainingGuests, guests, exclusions) ==
    LET auto == {g \in SeqRange(remainingGuests) : IsAutoGeneratedGuest(guests[g])}
        realGuestsAll == FilterSeq(remainingGuests, SeqRange(remainingGuests) \ auto)
        autoGeneratedAll == FilterSeq(remainingGuests, auto)
    IN  SortExclusionFirst(realGuestsAll, exclusions) \o autoGeneratedAll

\* sections 4 to 6: the order in which the remaining guests are offered to placement
OrderGuests(in, honorIds) ==
    LET remaining == FilterSeq(IdSeq(in.guests), GuestIds(in.guests) \ honorIds)
        remainingGuests == SortGuests(remaining, in.guests,
                                      in.configuration.sortingCriteria, in.exclusions)
    IN  IF in.configuration.sortingCriteria.byFamily
        THEN OrderByFamily(remainingGuests, in.guests, in.couples, in.exclusions, honorIds)
        ELSE OrderWithoutFamily(remainingGuests, in.guests, in.exclusions)

----------------------------------------------------------------------------
(* Table search *)

NoTable == 0

Warning(message, guestIds) ==
    [type |-> "exclusion_violated", message |-> message, guestIds |-> guestIds]

\* mutant of HasRoom: the capacity test is off by one
HasRoomOffByOne(table, guestsToPlace, seatsPerTable) ==
    Len(table.guests) + Len(guestsToPlace) <= seatsPerTable + 1

\* table.guests.length + guestsToPlace.length <= seatsPerTable
HasRoom(table, guestsToPlace, seatsPerTable) ==
    Len(table.guests) + Len(guestsToPlace) <= seatsPerTable

\* the nested loops over guestsToPlace and table.guests that set hasExclusion
HasConflict(table, guestsToPlace, exclusions) ==
    \E n \in 1..Len(guestsToPlace) : \E e \in 1..Len(table.guests) :
        HaveExclusion(guestsToPlace[n], table.guests[e], exclusions)

\* mutant of ViolationWarnings: one warning is pushed per new guest at most
RECURSIVE ViolationWarningsOncePerGuest(_, _, _, _, _)
ViolationWarningsOncePerGuest(guestsToPlace, seated, n, e, exclusions) ==
    IF n > Len(guestsToPlace) THEN <<>>
    ELSE IF e > Len(seated)
    THEN ViolationWarningsOncePerGuest(guestsToPlace, seated, n + 1, 1, exclusions)
    ELSE IF HaveExclusion(guestsToPlace[n], seated[e], exclusions)
    THEN <<Warning("same_table_despite_exclusion", <<guestsToPlace[n], seated[e]>>)>>
         \o ViolationWarningsOncePerGuest(guestsToPlace, seated, n + 1, 1, exclusions)
    ELSE ViolationWarningsOncePerGuest(guestsToPlace, seated, n, e + 1, exclusions)

\* lines 745-757: one warning per (new guest, seated guest) pair with an exclusion,
\* new guests in the outer loop, seated guests in the inner loop
RECURSIVE ViolationWarnings(_, _, _, _, _)
ViolationWarnings(guestsToPlace, seated, n, e, exclusions) ==
    IF n > Len(guestsToPlace) THEN <<>>
    ELSE IF e > Len(seated) THEN ViolationWarnings(guestsToPlace, seated, n + 1, 1, exclusions)
    ELSE LET rest == ViolationWarnings(guestsToPlace, seated, n, e + 1, exclusions)
         IN  IF HaveExclusion(guestsToPlace[n], seated[e], exclusions)
             THEN <<Warning("same_table_despite_exclusion",
                            <<guestsToPlace[n], seated[e]>>)>> \o rest
             ELSE rest

\* mutant of FindSuitableTableWithDebug: the conflict-free scan is skipped
FindSuitableTableBestEffortOnly(tbls, guestsToPlace, exclusions, seatsPerTable) ==
    LET roomy == {i \in 2..Len(tbls) : HasRoom(tbls[i], guestsToPlace, seatsPerTable)}
    IN  IF roomy # {}
        THEN LET i == CHOOSE k \in roomy : \A m \in roomy : k <= m
             IN  [table |-> i,
                  warnings |-> ViolationWarnings(guestsToPlace, tbls[i].guests, 1, 1,
                                                 exclusions),
                  path |-> "best_effort"]
        ELSE [table |-> NoTable, warnings |-> <<>>, path |-> "none"]

\* mutant of FindSuitableTableWithDebug: among the tables that suit, the one of
\* the lowest id is taken, not the first created
FindSuitableTableByLowestId(tbls, guestsToPlace, exclusions, seatsPerTable) ==
    LET free == {i \in 2..Len(tbls) :
                    /\ HasRoom(tbls[i], guestsToPlace, seatsPerTable)
                    /\ ~HasConflict(tbls[i], guestsToPlace, exclusions)}
        roomy == {i \in 2..Len(tbls) : HasRoom(tbls[i], guestsToPlace, seatsPerTable)}
    IN  IF free # {}
        THEN [table |-> CHOOSE i \in free : \A k \in free : tbls[i].id <= tbls[k].id,
              warnings |-> <<>>, path |-> "scan"]
        ELSE IF roomy # {}
        THEN LET i == CHOOSE k \in roomy : \A m \in roomy : tbls[k].id <= tbls[m].id
             IN  [table |-> i,
                  warnings |-> ViolationWarnings(guestsToPlace, tbls[i].guests, 1, 1,
                                                 exclusions),
                  path |-> "best_effort"]
        ELSE [table |-> NoTable, warnings |-> <<>>, path |-> "none"]

\* mutant of FindSuitableTableWithDebug: the tables are scanned from the last one
FindSuitableTableFromTheEnd(tbls, guestsToPlace, exclusions, seatsPerTable) ==
    LET free == {i \in 2..Len(tbls) :
                    /\ HasRoom(tbls[i], guestsToPlace, seatsPerTable)
                    /\ ~HasConflict(tbls[i], guestsToPlace, exclusions)}
        roomy == {i \in 2..Len(tbls) : HasRoom(tbls[i], guestsToPlace, seatsPerTable)}
    IN  IF free # {}
        THEN [table |-> CHOOSE i \in free : \A k \in free : i >= k,
              warnings |-> <<>>, path |-> "scan"]
        ELSE IF roomy # {}
        THEN LET i == CHOOSE k \in roomy : \A m \in roomy : k >= m
             IN  [table |-> i,
                  warnings |-> ViolationWarnings(guestsToPlace, tbls[i].guests, 1, 1,
                                                 exclusions),
                  path |-> "best_effort"]
        ELSE [table |-> NoTable, warnings |-> <<>>, path |-> "none"]

\* mutant of FindSuitableTableWithDebug: no best effort, a table must be free of
\* conflicts
FindSuitableTableWithoutBestEffort(tbls, guestsToPlace, exclusions, seatsPerTable) ==
    LET free == {i \in 2..Len(tbls) :
                    /\ HasRoom(tbls[i], guestsToPlace, seatsPerTable)
                    /\ ~HasConflict(tbls[i], guestsToPlace, exclusions)}
    IN  IF free # {}
        THEN [table |-> CHOOSE i \in free : \A k \in free : i <= k,
              warnings |-> <<>>, path |-> "scan"]
        ELSE [table |-> NoTable, warnings |-> <<>>, path |-> "none"]

\* findSuitableTableWithDebug: the index in tables of the chosen table (NoTable for
\* null), the warnings pushed and the path taken
FindSuitableTableWithDebug(tbls, guestsToPlace, exclusions, seatsPerTable) ==
    LET free == {i \in 2..Len(tbls) :
                    /\ HasRoom(tbls[i], guestsToPlace, seatsPerTable)
                    /\ ~HasConflict(tbls[i], guestsToPlace, exclusions)}
        roomy == {i \in 2..Len(tbls) : HasRoom(tbls[i], guestsToPlace, seatsPerTable)}
    IN  IF free # {}
        THEN [table |-> CHOOSE i \in free : \A k \in free : i <= k,
              warnings |-> <<>>, path |-> "scan"]
        ELSE IF roomy # {}
        THEN LET i == CHOOSE k \in roomy : \A m \in roomy : k <= m
             IN  [table |-> i,
                  warnings |-> ViolationWarnings(guestsToPlace, tbls[i].guests, 1, 1,
                                                 exclusions),
                  path |-> "best_effort"]
        ELSE [table |-> NoTable, warnings |-> <<>>, path |-> "none"]

\* mutant of FindSuitableTableWithFamilyPreference: the preferred table is not tried
FindSuitableTableWithoutPreference(tbls, guestsToPlace, exclusions, seatsPerTable, preferredTableId) ==
    FindSuitableTableWithDebug(tbls, guestsToPlace, exclusions, seatsPerTable)

\* findSuitableTableWithFamilyPreference; preferredTableId is NoTable when undefined
FindSuitableTableWithFamilyPreference(tbls, guestsToPlace, exclusions, seatsPerTable, preferredTableId) ==
    LET found == {i \in 1..Len(tbls) : tbls[i].id = preferredTableId}
        preferred == IF preferredTableId = NoTable \/ found = {} THEN NoTable
                     ELSE CHOOSE i \in found : \A k \in found : i <= k
    IN  IF /\ preferred # NoTable
           /\ tbls[preferred].number # 1
           /\ HasRoom(tbls[preferred], guestsToPlace, seatsPerTable)
           /\ ~HasConflict(tbls[preferred], guestsToPlace, exclusions)
        THEN [table |-> preferred, warnings |-> <<>>, path |-> "preferred"]
        ELSE FindSuitableTableWithDebug(tbls, guestsToPlace, exclusions, seatsPerTable)

\* lines 521-528: hasExclusionWithHonorTable
HasExclusionWithHonorTable(honorTable, guestsToPlace, exclusions) ==
    \E n \in 1..Len(guestsToPlace) : \E x \in 1..Len(exclusions) :
        LET g == guestsToPlace[n]
            exc == exclusions[x]
            otherGuestId == IF exc.guestAId = g THEN exc.guestBId ELSE exc.guestAId
        IN  /\ (exc.guestAId = g \/ exc.guestBId = g)
            /\ otherGuestId \in SeqRange(honorTable.guests)

\* suitableTable.guests.push(g) for every guest of the unit
SeatAt(tbls, i, guestsToPlace) ==
    [tbls EXCEPT ![i].guests = @ \o guestsToPlace]

\* mutant of RecordFamilies: the last writer wins
RECURSIVE RecordFamiliesLastWriter(_, _, _, _, _)
RecordFamiliesLastWriter(map, guestsToPlace, n, tableId, in) ==
    IF n > Len(guestsToPlace) THEN map
    ELSE LET g == in.guests[guestsToPlace[n]]
             fName == NormalizedFamily(g.lastName)
             next == IF /\ g.lastName # <<>>
                        /\ in.configuration.sortingCriteria.byFamily
                     THEN [k \in DOMAIN map \cup {fName} |-> IF k = fName THEN tableId ELSE map[k]]
                     ELSE map
         IN  RecordFamiliesLastWriter(next, guestsToPlace, n + 1, tableId, in)

\* lines 501-512: the family names of the unit are mapped, first writer wins
RECURSIVE RecordFamilies(_, _, _, _, _)
RecordFamilies(map, guestsToPlace, n, tableId, in) ==
    IF n > Len(guestsToPlace) THEN map
    ELSE LET g == in.guests[guestsToPlace[n]]
             fName == NormalizedFamily(g.lastName)
             next == IF /\ g.lastName # <<>>
                        /\ in.configuration.sortingCriteria.byFamily
                        /\ fName \notin DOMAIN map
                     THEN [k \in DOMAIN map \cup {fName} |->
                              IF k \in DOMAIN map THEN map[k] ELSE tableId]
                     ELSE map
         IN  RecordFamilies(next, guestsToPlace, n + 1, tableId, in)

\* shuffleArray (Fisher-Yates): js[i] is the index drawn for position i
Swap(arr, i, j) == [arr EXCEPT ![i] = arr[j], ![j] = arr[i]]

RECURSIVE ShuffleFrom(_, _, _)
ShuffleFrom(arr, i, js) ==
    IF i < 2 THEN arr ELSE ShuffleFrom(Swap(arr, i, js[i]), i - 1, js)

ShuffleArray(arr) ==
    {ShuffleFrom(arr, Len(arr), js) :
        js \in {f \in [2..Len(arr) -> 1..Len(arr)] : \A i \in 2..Len(arr) : f[i] <= i}}

\* mutant of ShuffleTables: the honor table is shuffled too
RECURSIVE ShuffleTablesHonorToo(_, _)
ShuffleTablesHonorToo(tbls, i) ==
    IF i > Len(tbls) THEN {<<>>}
    ELSE {<<t>> \o rest :
            t \in {[tbls[i] EXCEPT !.guests = g] : g \in ShuffleArray(tbls[i].guests)},
            rest \in ShuffleTablesHonorToo(tbls, i + 1)}

\* lines 569-577: every table but number 1 is shuffled
RECURSIVE ShuffleTables(_, _)
ShuffleTables(tbls, i) ==
    IF i > Len(tbls) THEN {<<>>}
    ELSE LET outcomes == IF tbls[i].number # 1
                         THEN {[tbls[i] EXCEPT !.guests = g] : g \in ShuffleArray(tbls[i].guests)}
                         ELSE {tbls[i]}
         IN  {<<t>> \o rest : t \in outcomes, rest \in ShuffleTables(tbls, i + 1)}

----------------------------------------------------------------------------
(* generateSeatingPlan *)

EmptyMap == [k \in {} |-> NoTable]

NoStep == [guest |-> NoGuest, unit |-> <<>>, path |-> "none", table |-> NoTable]

Step(guest, unit, path, table) ==
    [guest |-> guest, unit |-> unit, path |-> path, table |-> table]

NoResult == [success |-> FALSE, tables |-> <<>>, warnings |-> <<>>, errors |-> <<>>]

\* no call of generate has returned yet
NoCall == [calls |-> 0, input |-> <<>>, result |-> NoResult]

\* mutant of CreateTablesOf: the honor table gets the capacity of the other tables
CreateTablesOfOneCapacity(configuration) ==
    [i \in 1..(configuration.numberOfTables + 1) |->
        [id |-> i, number |-> i, guests |-> <<>>,
         capacity |-> configuration.seatsPerTable]]

\* lines 272-293: the honor table, then numberOfTables tables numbered from 2;
\* generateId gives each table an id of its own
CreateTablesOf(configuration) ==
    [i \in 1..(configuration.numberOfTables + 1) |->
        [id |-> i, number |-> i, guests |-> <<>>,
         capacity |-> IF i = 1 THEN configuration.honorTableSeats
                      ELSE configuration.seatsPerTable]]

\* lines 255-267: validation failed, the run returns at once
GenerateInvalid ==
    /\ pc = "start"
    /\ ~ValidateConfiguration(input).isValid
    /\ result' = [success |-> FALSE, tables |-> <<>>, warnings |-> <<>>,
                  errors |-> ValidateConfiguration(input).errors]
    /\ pc' = "done"
    /\ UNCHANGED <<previous, input, tables, warnings, honorTableGuestIds, orderedGuests, cursor,
                   placedGuestIds, familyTableMap, lastStep>>

\* mutant of CreateTables: the run goes on whatever the validation said
CreateTablesWithoutValidation ==
    /\ pc = "start"
    /\ tables' = CreateTablesOf(input.configuration)
    /\ pc' = "honor"
    /\ UNCHANGED <<previous, input, result, warnings, honorTableGuestIds, orderedGuests, cursor,
                   placedGuestIds, familyTableMap, lastStep>>

\* lines 255-293: validation passed, the tables are created
CreateTables ==
    /\ pc = "start"
    /\ ValidateConfiguration(input).isValid
    /\ tables' = CreateTablesOf(input.configuration)
    /\ pc' = "honor"
    /\ UNCHANGED <<previous, input, result, warnings, honorTableGuestIds, orderedGuests, cursor,
                   placedGuestIds, familyTableMap, lastStep>>

\* lines 295-318: the honor guests and their partners are seated at table 1,
\* in the order of the input list
SeatHonorTable ==
    /\ pc = "honor"
    /\ honorTableGuestIds' = HonorSet(input.guests, input.couples)
    /\ tables' = SeatAt(tables, 1, FilterSeq(IdSeq(input.guests), honorTableGuestIds'))
    /\ pc' = "sequence"
    /\ UNCHANGED <<previous, input, result, warnings, orderedGuests, cursor, placedGuestIds,
                   familyTableMap, lastStep>>

\* mutant of SequenceGuests: the guests array of the input is sorted in place
SequenceGuestsSortingInPlace ==
    /\ pc = "sequence"
    /\ orderedGuests' = OrderGuests(input, honorTableGuestIds)
    /\ input' = [input EXCEPT !.guests =
                    LET sorted == SortGuests(IdSeq(input.guests), input.guests,
                                             input.configuration.sortingCriteria,
                                             input.exclusions)
                    IN  [i \in 1..Len(sorted) |-> input.guests[sorted[i]]]]
    /\ placedGuestIds' = honorTableGuestIds
    /\ familyTableMap' = EmptyMap
    /\ cursor' = 1
    /\ pc' = "place"
    /\ UNCHANGED <<previous, result, tables, warnings, honorTableGuestIds, lastStep>>

\* lines 320-450: the remaining guests are ordered, the loop state is set up
SequenceGuests ==
    /\ pc = "sequence"
    /\ orderedGuests' = OrderGuests(input, honorTableGuestIds)
    /\ placedGuestIds' = honorTableGuestIds
    /\ familyTableMap' = EmptyMap
    /\ cursor' = 1
    /\ pc' = "place"
    /\ UNCHANGED <<previous, input, result, tables, warnings, honorTableGuestIds, lastStep>>

\* mutant of GuestsToPlace: the partner is not taken along
GuestsToPlaceAlone(guest, placed, in) == <<guest>>

\* mutant of GuestsToPlace: the partner joins the unit even when already placed
GuestsToPlaceWithPartnerAgain(guest, placed, in) ==
    LET partner == GetCouplePartner(guest, in.couples, in.guests)
    IN  IF partner # NoGuest THEN <<guest, partner>> ELSE <<guest>>

\* lines 456-459: the guest and its partner if it is not placed yet
GuestsToPlace(guest, placed, in) ==
    LET partner == GetCouplePartner(guest, in.couples, in.guests)
    IN  IF partner # NoGuest /\ partner \notin placed THEN <<guest, partner>> ELSE <<guest>>

\* lines 477-485: the table already mapped to the family of the guest
PreferredTableId(guest, map, in) ==
    LET familyName == NormalizedFamily(in.guests[guest].lastName)
    IN  IF /\ familyName # <<>>
           /\ in.configuration.sortingCriteria.byFamily
           /\ familyName \in DOMAIN map
        THEN map[familyName] ELSE NoTable

\* mutant of LastResort: the capacity of the honor table is not tested
LastResortIgnoringCapacity(tbls, guestsToPlace, exclusions) ==
    IF ~HasExclusionWithHonorTable(tbls[1], guestsToPlace, exclusions)
    THEN [seated |-> TRUE, warning |-> Warning("honor_table_last_resort", guestsToPlace)]
    ELSE [seated |-> FALSE,
          warning |-> Warning("cannot_place_honor_exclusion", guestsToPlace)]

\* mutant of LastResort: the exclusions with the honor table are not looked at
LastResortIgnoringExclusions(tbls, guestsToPlace, exclusions) ==
    IF Len(tbls[1].guests) + Len(guestsToPlace) <= tbls[1].capacity
    THEN [seated |-> TRUE, warning |-> Warning("honor_table_last_resort", guestsToPlace)]
    ELSE [seated |-> FALSE, warning |-> Warning("cannot_place_honor_full", guestsToPlace)]

\* lines 514-565: no table was found, the honor table is the last resort
LastResort(tbls, guestsToPlace, exclusions) ==
    LET honorTable == tbls[1]
    IN  IF Len(honorTable.guests) + Len(guestsToPlace) <= honorTable.capacity
        THEN IF ~HasExclusionWithHonorTable(honorTable, guestsToPlace, exclusions)
             THEN [seated |-> TRUE,
                   warning |-> Warning("honor_table_last_resort", guestsToPlace)]
             ELSE [seated |-> FALSE,
                   warning |-> Warning("cannot_place_honor_exclusion", guestsToPlace)]
        ELSE [seated |-> FALSE,
              warning |-> Warning("cannot_place_honor_full", guestsToPlace)]

\* mutant of PlaceNext: a unit that found no seat is offered again, without a warning
PlaceNextRetryingUnplaced ==
    /\ pc = "place"
    /\ cursor <= Len(orderedGuests)
    /\ LET guest == orderedGuests[cursor]
           guestsToPlace == GuestsToPlace(guest, placedGuestIds, input)
           suitable == FindSuitableTableWithFamilyPreference(
                           tables, guestsToPlace, input.exclusions,
                           input.configuration.seatsPerTable,
                           PreferredTableId(guest, familyTableMap, input))
           last == LastResort(tables, guestsToPlace, input.exclusions)
       IN  IF guest \in placedGuestIds
           THEN /\ lastStep' = Step(guest, <<>>, "skipped", NoTable)
                /\ cursor' = cursor + 1
                /\ UNCHANGED <<tables, warnings, placedGuestIds, familyTableMap>>
           ELSE IF suitable.table # NoTable
           THEN /\ tables' = SeatAt(tables, suitable.table, guestsToPlace)
                /\ warnings' = warnings \o suitable.warnings
                /\ placedGuestIds' = placedGuestIds \cup SeqRange(guestsToPlace)
                /\ familyTableMap' = RecordFamilies(familyTableMap, guestsToPlace, 1,
                                                    tables[suitable.table].id, input)
                /\ lastStep' = Step(guest, guestsToPlace, suitable.path,
                                    tables[suitable.table].number)
                /\ cursor' = cursor + 1
           ELSE IF last.seated
           THEN /\ warnings' = Append(warnings \o suitable.warnings, last.warning)
                /\ familyTableMap' = familyTableMap
                /\ tables' = SeatAt(tables, 1, guestsToPlace)
                /\ placedGuestIds' = placedGuestIds \cup SeqRange(guestsToPlace)
                /\ lastStep' = Step(guest, guestsToPlace, "honor_last_resort", 1)
                /\ cursor' = cursor + 1
           ELSE UNCHANGED <<tables, warnings, placedGuestIds, familyTableMap, lastStep,
                            cursor>>
    /\ pc' = "place"
    /\ UNCHANGED <<previous, input, result, honorTableGuestIds, orderedGuests>>

\* lines 452-566: one iteration of the placement loop
PlaceNext ==
    /\ pc = "place"
    /\ cursor <= Len(orderedGuests)
    /\ cursor' = cursor + 1
    /\ LET guest == orderedGuests[cursor]
           guestsToPlace == GuestsToPlace(guest, placedGuestIds, input)
           suitable == FindSuitableTableWithFamilyPreference(
                           tables, guestsToPlace, input.exclusions,
                           input.configuration.seatsPerTable,
                           PreferredTableId(guest, familyTableMap, input))
           last == LastResort(tables, guestsToPlace, input.exclusions)
       IN  IF guest \in placedGuestIds
           THEN /\ lastStep' = Step(guest, <<>>, "skipped", NoTable)
                /\ UNCHANGED <<tables, warnings, placedGuestIds, familyTableMap>>
           ELSE IF suitable.table # NoTable
           THEN /\ tables' = SeatAt(tables, suitable.table, guestsToPlace)
                /\ warnings' = warnings \o suitable.warnings
                /\ placedGuestIds' = placedGuestIds \cup SeqRange(guestsToPlace)
                /\ familyTableMap' = RecordFamilies(familyTableMap, guestsToPlace, 1,
                                                    tables[suitable.table].id, input)
                /\ lastStep' = Step(guest, guestsToPlace, suitable.path,
                                    tables[suitable.table].number)
           ELSE /\ warnings' = Append(warnings \o suitable.warnings, last.warning)
                /\ familyTableMap' = familyTableMap
                /\ IF last.seated
                   THEN /\ tables' = SeatAt(tables, 1, guestsToPlace)
                        /\ placedGuestIds' = placedGuestIds \cup SeqRange(guestsToPlace)
                        /\ lastStep' = Step(guest, guestsToPlace, "honor_last_resort", 1)
                   ELSE /\ UNCHANGED <<tables, placedGuestIds>>
                        /\ lastStep' = Step(guest, guestsToPlace, "unplaced", NoTable)
    /\ pc' = "place"
    /\ UNCHANGED <<previous, input, result, honorTableGuestIds, orderedGuests>>

\* lines 568-602: the optional shuffle of the non-honor tables, then the return
ReturnResult ==
    /\ pc = "place"
    /\ cursor > Len(orderedGuests)
    /\ IF input.configuration.sortingCriteria.random
       THEN tables' \in ShuffleTables(tables, 1)
       ELSE tables' = tables
    /\ result' = [success |-> TRUE, tables |-> tables', warnings |-> warnings,
                  errors |-> <<>>]
    /\ pc' = "done"
    /\ UNCHANGED <<previous, input, warnings, honorTableGuestIds, orderedGuests, cursor,
                   placedGuestIds, familyTableMap, lastStep>>

Next ==
    \/ GenerateInvalid
    \/ CreateTables
    \/ SeatHonorTable
    \/ SequenceGuests
    \/ PlaceNext
    \/ ReturnResult

----------------------------------------------------------------------------
(* The inputs of the model *)

Guest(id, firstName, lastName, age, role) ==
    [id |-> id, firstName |-> firstName, lastName |-> lastName, age |-> age, role |-> role]

Pair(a, b) == [guestAId |-> a, guestBId |-> b]

Criteria(byFamily, byAge, byRole, random) ==
    [byFamily |-> byFamily, byAge |-> byAge, byRole |-> byRole, random |-> random]

Configuration(numberOfTables, seatsPerTable, honorTableSeats, sortingCriteria) ==
    [numberOfTables |-> numberOfTables, seatsPerTable |-> seatsPerTable,
     honorTableSeats |-> honorTableSeats, sortingCriteria |-> sortingCriteria]

Input(guests, couples, exclusions, configuration) ==
    [guests |-> guests, couples |-> couples, exclusions |-> exclusions,
     configuration |-> configuration]

\* what a guest can be, but for its id: kind = <<firstName, lastName, age, role>>
PlainKinds ==
    { <<"Ann", <<>>, <<>>, "regular">>,
      <<"Ann", <<>>, <<>>, "witness">> }

FamilyKinds ==
    { <<"Ann", <<"D">>, <<2>>, "regular">>,
      <<"Ann", <<"d", " ">>, <<1>>, "regular">>,
      <<"Ann", <<"m">>, <<>>, "regular">>,
      <<"Invité 7", <<>>, <<>>, "regular">> }

CriteriaKinds ==
    { <<"Ann", <<>>, <<>>, "married">>,
      <<"Ann", <<"D">>, <<1>>, "regular">>,
      <<"Guest 7", <<>>, <<>>, "regular">> }

ScenarioKinds ==
    { <<"Ann", <<"D">>, <<>>, "regular">>,
      <<"Ann", <<"m">>, <<>>, "regular">>,
      <<"Ann", <<>>, <<>>, "regular">> }

GuestLists(kinds, n) ==
    {[i \in 1..n |-> Guest(i, k[i][1], k[i][2], k[i][3], k[i][4])] : k \in [1..n -> kinds]}

\* couples as the data entry makes them: two distinct guests of the list
OrderedPairs(n) == {Pair(a, b) : a, b \in 1..n} \ {Pair(a, a) : a \in 1..n}

AscendingPairs(n) == {p \in OrderedPairs(n) : p.guestAId < p.guestBId}

SamePair(p, q) ==
    {p.guestAId, p.guestBId} = {q.guestAId, q.guestBId}

\* lists of at most k pairs, no pair twice
PairLists(pairs, k) ==
    UNION {{l \in [1..m -> pairs] : \A i, j \in 1..m : i < j => ~SamePair(l[i], l[j])} :
              m \in 0..k}

NoCriteria == Criteria(FALSE, FALSE, FALSE, FALSE)

\* the descending pairs: guestAId > guestBId
DescendingPairs(n) == OrderedPairs(n) \ AscendingPairs(n)

\* plain guests and witnesses, every configuration of the bounds
GeneralInput ==
    \E n \in 0..MaxGuests :
        \E g \in GuestLists(PlainKinds, n),
           c \in PairLists(AscendingPairs(n), 1),
           e \in PairLists(DescendingPairs(n), 1),
           t \in 0..MaxTables, s \in 1..MaxSeats, h \in 0..MaxHonorSeats :
            input = Input(g, c, e, Configuration(t, s, h, NoCriteria))

\* families, ages and fillers, with and without family grouping
FamilyInput ==
    \E n \in 1..MaxGuests :
        \E g \in GuestLists(FamilyKinds, n),
           c \in PairLists(AscendingPairs(n), 1),
           e \in PairLists(AscendingPairs(n), 1),
           f, a \in BOOLEAN :
            input = Input(g, c, e, Configuration(MaxTables, MaxSeats, 1,
                                                 Criteria(f, a, FALSE, FALSE)))

\* every combination of the sorting criteria
CriteriaInput ==
    \E n \in 1..MaxGuests :
        \E g \in GuestLists(CriteriaKinds, n),
           c \in PairLists(AscendingPairs(n), 1),
           f, a, r, x \in BOOLEAN :
            input = Input(g, c, <<>>, Configuration(1, MaxSeats, MaxHonorSeats,
                                                    Criteria(f, a, r, x)))

\* the scenario of four regular guests: one couple (a, b), one exclusion (a, c),
\* two tables of two seats and an honor table of two seats
ScenarioInput ==
    \E g \in GuestLists(ScenarioKinds, 4), a, b, c \in 1..4, f \in BOOLEAN :
        /\ a # b /\ a # c /\ b # c
        /\ input = Input(g, <<Pair(a, b)>>, <<Pair(a, c)>>,
                         Configuration(2, 2, 2, Criteria(f, FALSE, FALSE, FALSE)))

\* couples that chain or cycle: (a, b), (b, c) and possibly (c, a), among four
\* guests, with tables of two or three seats
ChainSeats == {2, 3}

ChainHonorSeats == {0, 3}

ChainInput ==
    \E g \in GuestLists(PlainKinds, 4), a, b, c \in 1..4, cycle \in BOOLEAN,
       s \in ChainSeats, h \in ChainHonorSeats :
        /\ a # b /\ a # c /\ b # c
        /\ input = Input(g,
                         IF cycle THEN <<Pair(a, b), Pair(b, c), Pair(c, a)>>
                                  ELSE <<Pair(a, b), Pair(b, c)>>,
                         <<>>, Configuration(2, s, h, NoCriteria))

\* families that compete for tables: four regular guests, one exclusion, family
\* grouping on, two tables of three seats
FamilyTablesInput ==
    \E g \in GuestLists(ScenarioKinds, 4), e \in AscendingPairs(4) :
        input = Input(g, <<>>, <<e>>,
                      Configuration(2, 3, 0, Criteria(TRUE, FALSE, FALSE, FALSE)))

\* one table for guests that exclude one another: three regular guests, up to
\* two exclusions, at most one couple, one table of three seats
CrowdedTableInput ==
    \E c \in PairLists(AscendingPairs(3), 1), e \in PairLists(OrderedPairs(3), 2) :
        input = Input([i \in 1..3 |-> Guest(i, "Ann", <<>>, <<>>, "regular")], c, e,
                      Configuration(1, 3, 0, NoCriteria))

\* the state at the entry of generateSeatingPlan
FirstCall ==
    /\ pc = "start"
    /\ result = NoResult
    /\ tables = <<>>
    /\ warnings = <<>>
    /\ honorTableGuestIds = {}
    /\ orderedGuests = <<>>
    /\ cursor = 1
    /\ placedGuestIds = {}
    /\ familyTableMap = EmptyMap
    /\ lastStep = NoStep
    /\ previous = NoCall

Init ==
    /\ (GeneralInput \/ FamilyInput \/ CriteriaInput \/ ScenarioInput \/ ChainInput
          \/ FamilyTablesInput \/ CrowdedTableInput)
    /\ FirstCall

Spec == Init /\ [][Next]_vars

----------------------------------------------------------------------------
(* generateSeatingPlan called twice: the ids of generateId, the Regenerate button *)

\* generateId: `${Date.now()}-${Math.random()...}`, a string of its own for each
\* table, unrelated to the table's rank; the ids of the n tables of a run are
\* drawn in ascending or in descending order
GeneratedIds(n) == {[i \in 1..n |-> i], [i \in 1..n |-> n + 1 - i]}

\* lines 255-293 with the ids drawn by generateId
CreateTablesAnyIds ==
    /\ pc = "start"
    /\ ValidateConfiguration(input).isValid
    /\ \E ids \in GeneratedIds(input.configuration.numberOfTables + 1) :
          tables' = [i \in 1..(input.configuration.numberOfTables + 1) |->
                        [CreateTablesOf(input.configuration)[i] EXCEPT !.id = ids[i]]]
    /\ pc' = "honor"
    /\ UNCHANGED <<previous, input, result, warnings, honorTableGuestIds, orderedGuests,
                   cursor, placedGuestIds, familyTableMap, lastStep>>

\* the caller keeps the result, sets the random criterion as it likes and calls
\* generate again on the same guests, couples and exclusions
CallAgain ==
    /\ pc = "done"
    /\ previous.calls = 0
    /\ previous' = [calls |-> 1, input |-> input, result |-> result]
    /\ \E random \in BOOLEAN :
          input' = [input EXCEPT !.configuration.sortingCriteria.random = random]
    /\ pc' = "start"
    /\ result' = NoResult
    /\ tables' = <<>>
    /\ warnings' = <<>>
    /\ honorTableGuestIds' = {}
    /\ orderedGuests' = <<>>
    /\ cursor' = 1
    /\ placedGuestIds' = {}
    /\ familyTableMap' = EmptyMap
    /\ lastStep' = NoStep

NextTwice ==
    \/ GenerateInvalid
    \/ CreateTablesAnyIds
    \/ SeatHonorTable
    \/ SequenceGuests
    \/ PlaceNext
    \/ ReturnResult
    \/ CallAgain

TwiceKinds ==
    { <<"Ann", <<"D">>, <<>>, "regular">>,
      <<"Ann", <<"m">>, <<>>, "regular">>,
      <<"Ann", <<>>, <<>>, "witness">> }

\* families and witnesses, at most one couple and one exclusion, the random
\* criterion off at the first call
TwiceInput ==
    \E n \in 1..MaxGuests :
        \E g \in GuestLists(TwiceKinds, n),
           c \in PairLists(AscendingPairs(n), 1),
           e \in PairLists(AscendingPairs(n), 1),
           f \in BOOLEAN :
            input = Input(g, c, e, Configuration(MaxTables, MaxSeats, MaxHonorSeats,
                                                 Criteria(f, FALSE, FALSE, FALSE)))

InitTwice == TwiceInput /\ FirstCall

SpecTwice == InitTwice /\ [][NextTwice]_vars

----------------------------------------------------------------------------
(* generateSeatingPlan on any input: unknown ids, self couples, chains, no seats *)

\* two guests, 1 and 2, and couples that name the id 3 no guest has, pair a
\* guest with itself, come twice, cycle or chain
AnyCouples ==
    { <<>>, <<Pair(1, 1)>>, <<Pair(1, 3)>>, <<Pair(3, 3)>>,
      <<Pair(1, 2), Pair(2, 1)>>, <<Pair(1, 2), Pair(2, 3)>>,
      <<Pair(1, 3), Pair(3, 2)>> }

AnyExclusions == { <<>>, <<Pair(1, 2)>>, <<Pair(2, 3)>> }

\* <<numberOfTables, seatsPerTable, honorTableSeats>>, down to no seat at all
AnyConfigurations == { <<0, 0, 0>>, <<0, 0, 2>>, <<1, 1, 3>> }

AnyInput ==
    \E k \in PlainKinds, c \in AnyCouples, e \in AnyExclusions,
       cf \in AnyConfigurations :
        input = Input(<<Guest(1, k[1], k[2], k[3], k[4]),
                        Guest(2, "Ann", <<>>, <<>>, "regular")>>,
                      c, e, Configuration(cf[1], cf[2], cf[3], NoCriteria))

InitAny == AnyInput /\ FirstCall

\* the function runs on one thread to its return: a step that can be taken is taken
SpecAny == InitAny /\ [][Next]_vars /\ WF_vars(Next)

----------------------------------------------------------------------------
(* Properties *)

Finished == pc = "done"

Succeeded == pc = "done" /\ result.success

Validation == ValidateConfiguration(input)

PairOf(p) == {p.guestAId, p.guestBId}

AllGuestIds == GuestIds(input.guests)

\* the tables (indexes) on which a guest sits
TablesOf(tbls, g) == {i \in 1..Len(tbls) : g \in SeqRange(tbls[i].guests)}

\* how many seats a guest occupies, all tables together
Occurrences(tbls, g) ==
    Cardinality({p \in UNION {{<<i, k>> : k \in 1..Len(tbls[i].guests)} : i \in 1..Len(tbls)} :
                    tbls[p[1]].guests[p[2]] = g})

\* some warning names all the guests of ids
Warned(ws, ids) == \E w \in 1..Len(ws) : ids \subseteq SeqRange(ws[w].guestIds)

CannotPlaceMessages == {"cannot_place_honor_exclusion", "cannot_place_honor_full"}

CannotPlaceWarned(ws, g) ==
    \E w \in 1..Len(ws) :
        ws[w].message \in CannotPlaceMessages /\ g \in SeqRange(ws[w].guestIds)

CouplesOf(g) == {i \in 1..Len(input.couples) : g \in PairOf(input.couples[i])}

PartnerIn(i, g) ==
    IF input.couples[i].guestAId = g
    THEN input.couples[i].guestBId ELSE input.couples[i].guestAId

\* C1: no table, the honor table included, ever holds more guests than its
\* capacity: in every state of a run and in the tables a successful run returns.
WithinCapacity(tbls) ==
    \A i \in 1..Len(tbls) : Len(tbls[i].guests) <= tbls[i].capacity

C1_CapacityRespected ==
    /\ WithinCapacity(tables)
    /\ Succeeded => WithinCapacity(result.tables)

\* a successful run with a non-honor table, every table full, and a unit that
\* could not be placed
C1_Witness ==
    /\ Succeeded
    /\ Len(result.tables) >= 2
    /\ \A i \in 1..Len(result.tables) :
          /\ result.tables[i].capacity >= 1
          /\ Len(result.tables[i].guests) = result.tables[i].capacity
    /\ \E w \in 1..Len(result.warnings) : result.warnings[w].message \in CannotPlaceMessages

\* C2: after a successful run every guest of role married or witness sits at the
\* table of number 1, and so does the other member of its couple when the guest
\* belongs to exactly one couple, whatever the sorting criteria.
HonorTableGuests(tbls) ==
    UNION {SeqRange(tbls[i].guests) : i \in {k \in 1..Len(tbls) : tbls[k].number = 1}}

C2_HonorGuestsAtTableOne ==
    Succeeded =>
        \A g \in AllGuestIds :
            IsHonorRole(input.guests[g]) =>
                /\ g \in HonorTableGuests(result.tables)
                /\ \A i \in CouplesOf(g) :
                      Cardinality(CouplesOf(g)) = 1 =>
                          PartnerIn(i, g) \in HonorTableGuests(result.tables)

\* a married guest and its regular partner at table 1, family grouping and the
\* shuffle both enabled
C2_Witness ==
    /\ Succeeded
    /\ input.configuration.sortingCriteria.random
    /\ input.configuration.sortingCriteria.byFamily
    /\ \E g \in AllGuestIds : \E i \in CouplesOf(g) :
          /\ input.guests[g].role = "married"
          /\ input.guests[PartnerIn(i, g)].role = "regular"
          /\ {g, PartnerIn(i, g)} \subseteq HonorTableGuests(result.tables)

\* C3: when no guest belongs to two couples, the two members of a couple of
\* non-honor guests never sit at two different tables, and after a successful run
\* they share a table or a warning names both.
AtMostOneCouplePerGuest ==
    /\ \A g \in AllGuestIds : Cardinality(CouplesOf(g)) <= 1
    /\ \A i \in 1..Len(input.couples) :
          input.couples[i].guestAId # input.couples[i].guestBId

IsHonorGuest(g) ==
    \/ IsHonorRole(input.guests[g])
    \/ \E i \in CouplesOf(g) : IsHonorRole(input.guests[PartnerIn(i, g)])

NonHonorCouples ==
    {i \in 1..Len(input.couples) : \A g \in PairOf(input.couples[i]) : ~IsHonorGuest(g)}

SplitAcrossTables(tbls, a, b) ==
    \E i, j \in 1..Len(tbls) :
        i # j /\ a \in SeqRange(tbls[i].guests) /\ b \in SeqRange(tbls[j].guests)

ShareTable(tbls, a, b) ==
    \E i \in 1..Len(tbls) : {a, b} \subseteq SeqRange(tbls[i].guests)

C3_CouplesTogetherOrWarned ==
    AtMostOneCouplePerGuest =>
        \A i \in NonHonorCouples :
            LET a == input.couples[i].guestAId
                b == input.couples[i].guestBId
            IN  /\ ~SplitAcrossTables(tables, a, b)
                /\ Succeeded =>
                      /\ ~SplitAcrossTables(result.tables, a, b)
                      /\ \/ ShareTable(result.tables, a, b)
                         \/ Warned(result.warnings, {a, b})

\* a couple of non-honor guests that is seated nowhere, a warning names both
C3_Witness ==
    /\ Succeeded
    /\ AtMostOneCouplePerGuest
    /\ \E i \in NonHonorCouples :
          /\ \A g \in PairOf(input.couples[i]) : TablesOf(result.tables, g) = {}
          /\ Warned(result.warnings, PairOf(input.couples[i]))

\* C4: when the pair of a couple is also the pair of an exclusion, in either
\* order, validation fails with an error naming the pair, and the run returns
\* success = false with no table.
ConflictingCouples ==
    {i \in 1..Len(input.couples) :
        \E k \in 1..Len(input.exclusions) :
            PairOf(input.exclusions[k]) = PairOf(input.couples[i])}

C4_CoupleExclusionRejected ==
    \A i \in ConflictingCouples :
        /\ ~Validation.isValid
        /\ \E k \in 1..Len(Validation.errors) :
              /\ Validation.errors[k].kind = "couple_exclusion"
              /\ SeqRange(Validation.errors[k].guestIds) = PairOf(input.couples[i])
        /\ Finished => (~result.success /\ result.tables = <<>>)

\* a rejected run whose exclusion lists the pair in the order opposite to the couple
C4_Witness ==
    /\ Finished
    /\ ~result.success
    /\ \E i \in ConflictingCouples : \E k \in 1..Len(input.exclusions) :
          /\ input.exclusions[k].guestAId = input.couples[i].guestBId
          /\ input.exclusions[k].guestBId = input.couples[i].guestAId

\* C5 as stated: more guests than seats makes validation fail and the run return
\* success = false.
TotalCapacity ==
    input.configuration.honorTableSeats
        + input.configuration.numberOfTables * input.configuration.seatsPerTable

TooManyGuests == Len(input.guests) > TotalCapacity

Unseated(tbls) == {g \in AllGuestIds : TablesOf(tbls, g) = {}}

C6_SuccessIffValid ==
    Finished =>
        /\ result.success = Validation.isValid
        /\ ~Validation.isValid =>
              /\ result.tables = <<>>
              /\ result.warnings = <<>>
              /\ result.errors = Validation.errors
        /\ Validation.isValid => result.errors = <<>>

\* a rejected run with two errors, the honor-table error before the couple error
C6_Witness ==
    /\ Finished
    /\ ~result.success
    /\ Len(result.errors) = 2
    /\ result.errors[1].kind = "honor_capacity"
    /\ result.errors[2].kind = "couple_exclusion"

\* C7 as stated: after a successful run, every exclusion whose two guests share a
\* table, the honor table included, is named by a warning.
C7_Original ==
    Succeeded =>
        \A k \in 1..Len(input.exclusions) :
            LET a == input.exclusions[k].guestAId
                b == input.exclusions[k].guestBId
            IN  ShareTable(result.tables, a, b) => Warned(result.warnings, {a, b})

\* C8: a unit joins a non-honor table that seats a guest it excludes only when no
\* non-honor table has both room for the unit and no such guest; in the scenario
\* of four guests (couple A-B, exclusion A-C, two tables of two seats) A and B
\* share a table and C sits at another table than A.
ExcludedAt(tbl, unit) ==
    \E g \in SeqRange(unit) : \E o \in SeqRange(tbl.guests) :
        \E k \in 1..Len(input.exclusions) : PairOf(input.exclusions[k]) = {g, o}

FreeFor(tbl, unit) ==
    /\ Len(tbl.guests) + Len(unit) <= tbl.capacity
    /\ ~ExcludedAt(tbl, unit)

ConflictOnlyWhenForced ==
    (pc = "place" /\ pc' = "place") =>
        \A i \in 2..Len(tables) :
            LET unit == SubSeq(tables'[i].guests, Len(tables[i].guests) + 1,
                               Len(tables'[i].guests))
            IN  (unit # <<>> /\ ExcludedAt(tables[i], unit)) =>
                    ~\E j \in 2..Len(tables) : FreeFor(tables[j], unit)

IsScenario ==
    /\ Len(input.guests) = 4
    /\ \A g \in AllGuestIds : input.guests[g].role = "regular"
    /\ Len(input.couples) = 1
    /\ Len(input.exclusions) = 1
    /\ Cardinality(PairOf(input.couples[1]) \cap PairOf(input.exclusions[1])) = 1
    /\ input.configuration.numberOfTables = 2
    /\ input.configuration.seatsPerTable = 2
    /\ input.configuration.honorTableSeats = 2

ScenarioOutcome ==
    (Succeeded /\ IsScenario) =>
        LET A == CHOOSE g \in PairOf(input.couples[1]) : g \in PairOf(input.exclusions[1])
            B == CHOOSE g \in PairOf(input.couples[1]) : g # A
            C == CHOOSE g \in PairOf(input.exclusions[1]) : g # A
        IN  /\ ShareTable(result.tables, A, B)
            /\ TablesOf(result.tables, C) # {}
            /\ ~ShareTable(result.tables, A, C)

C8_ConflictOnlyWhenForced == [][ConflictOnlyWhenForced]_vars /\ []ScenarioOutcome

\* a unit has just been seated, best effort, with a guest it excludes
C8_Witness ==
    /\ pc = "place"
    /\ lastStep.path = "best_effort"
    /\ lastStep.table > 1
    /\ \E g \in SeqRange(lastStep.unit) :
          \E o \in SeqRange(tables[lastStep.table].guests) \ SeqRange(lastStep.unit) :
              \E k \in 1..Len(input.exclusions) : PairOf(input.exclusions[k]) = {g, o}

\* the scenario of C8 ran to its end
C8_ScenarioReached == Succeeded /\ IsScenario

\* C9: after a successful run every guest of the input occupies exactly one seat,
\* or occupies none and is named in a cannot-place warning.
C9_SeatedOnceOrWarned ==
    Succeeded =>
        \A g \in AllGuestIds :
            /\ Occurrences(result.tables, g) <= 1
            /\ Occurrences(result.tables, g) = 0 => CannotPlaceWarned(result.warnings, g)

\* one unit went to the honor table as a last resort, a later one found no seat
C9_Witness ==
    /\ Succeeded
    /\ \E w \in 1..Len(result.warnings) :
          result.warnings[w].message = "honor_table_last_resort"
    /\ \E g \in AllGuestIds :
          Occurrences(result.tables, g) = 0 /\ CannotPlaceWarned(result.warnings, g)

\* C10 as stated: with family grouping enabled, a family seated on more than one
\* table is reported by a family-split warning; validation raises no error about
\* the size of a family.
FamilyOf(g) == NormalizedFamily(input.guests[g].lastName)

SplitFamilies(tbls) ==
    {f \in {FamilyOf(g) : g \in AllGuestIds} \ {<<>>} :
        Cardinality({i \in 1..Len(tbls) :
                        \E g \in SeqRange(tbls[i].guests) : FamilyOf(g) = f}) > 1}

C10_Original ==
    /\ \A k \in 1..Len(Validation.errors) :
          Validation.errors[k].kind = "group_capacity" =>
              \A g \in SeqRange(Validation.errors[k].guestIds) : CouplesOf(g) # {}
    /\ (Succeeded /\ input.configuration.sortingCriteria.byFamily) =>
          \A f \in SplitFamilies(result.tables) :
              \E w \in 1..Len(result.warnings) :
                  /\ result.warnings[w].type = "family_split"
                  /\ \A g \in SeqRange(result.warnings[w].guestIds) : FamilyOf(g) = f

\* C13: a successful run returns numberOfTables + 1 tables, the first of number 1
\* and capacity honorTableSeats, the others numbered from 2 with capacity
\* seatsPerTable; from their creation to the return the tables are these, whatever
\* the placement does, also when a unit finds no seat.
TablesAsConfigured(tbls) ==
    /\ Len(tbls) = input.configuration.numberOfTables + 1
    /\ tbls[1].number = 1
    /\ tbls[1].capacity = input.configuration.honorTableSeats
    /\ \A i \in 2..Len(tbls) :
          /\ tbls[i].number = i
          /\ tbls[i].capacity = input.configuration.seatsPerTable

CoupleLinked(a, b) ==
    \E i \in 1..Len(input.couples) : PairOf(input.couples[i]) = {a, b}

\* the guests that couples connect to the guests of a set, the set included
RECURSIVE CoupleClosure(_)
CoupleClosure(members) ==
    LET linked == {g \in AllGuestIds : \E m \in members : CoupleLinked(g, m)}
    IN  IF linked \subseteq members THEN members ELSE CoupleClosure(members \cup linked)

\* the connected components of the couple graph that have two members or more
CoupleComponents ==
    {K \in {CoupleClosure({g}) : g \in AllGuestIds} : Cardinality(K) >= 2}

\* the guests of an honor role and every guest coupled with one of them
HonorMembers ==
    {g \in AllGuestIds :
        \/ IsHonorRole(input.guests[g])
        \/ \E h \in AllGuestIds : h # g /\ IsHonorRole(input.guests[h]) /\ CoupleLinked(g, h)}

ApplicableCapacity(K) ==
    IF K \cap HonorMembers # {} THEN input.configuration.honorTableSeats
    ELSE input.configuration.seatsPerTable

OversizedGroups == {K \in CoupleComponents : Cardinality(K) > ApplicableCapacity(K)}

HonorTableTooSmall == Cardinality(HonorMembers) > input.configuration.honorTableSeats

ErrorsOfKind(errors, kind) == {k \in 1..Len(errors) : errors[k].kind = kind}

C15_ValidIffEveryCheckPasses ==
    (Finished /\ AtMostOneCouplePerGuest) =>
        LET validation == Validation
            errors == validation.errors
        IN  IF input.guests = <<>>
            THEN /\ ~validation.isValid
                 /\ Len(errors) = 1
                 /\ errors[1].kind = "no_guests"
            ELSE /\ validation.isValid <=>
                        /\ ~HonorTableTooSmall
                        /\ ConflictingCouples = {}
                        /\ OversizedGroups = {}
                 /\ Cardinality(ErrorsOfKind(errors, "honor_capacity")) =
                        (IF HonorTableTooSmall THEN 1 ELSE 0)
                 /\ Cardinality(ErrorsOfKind(errors, "couple_exclusion")) =
                        Cardinality(ConflictingCouples)
                 /\ Cardinality(ErrorsOfKind(errors, "group_capacity")) =
                        Cardinality(OversizedGroups)
                 /\ ErrorsOfKind(errors, "no_guests") = {}

\* one input violates the three checks at once: three errors are returned
C15_Witness ==
    /\ Finished
    /\ AtMostOneCouplePerGuest
    /\ HonorTableTooSmall
    /\ ConflictingCouples # {}
    /\ OversizedGroups # {}
    /\ Len(result.errors) = 3

\* C16: validation reports an error for every couple-connected group of two
\* guests or more that is larger than its capacity, honorTableSeats when a member
\* of the group is an honor guest or the partner of one, seatsPerTable otherwise;
\* it reports none for a group within its capacity.
GroupErrorsOf(errors, K) ==
    {k \in ErrorsOfKind(errors, "group_capacity") : SeqRange(errors[k].guestIds) = K}

GroupErrorsFor(K) == GroupErrorsOf(Validation.errors, K)

C16_OversizedGroupsRejected ==
    (Finished /\ input.guests # <<>>) =>
        LET errors == Validation.errors
            components == CoupleComponents
        IN  /\ \A K \in components :
                  IF Cardinality(K) > ApplicableCapacity(K)
                  THEN /\ Cardinality(GroupErrorsOf(errors, K)) = 1
                       /\ \A k \in GroupErrorsOf(errors, K) :
                             /\ errors[k].size = Cardinality(K)
                             /\ errors[k].capacity = ApplicableCapacity(K)
                       /\ ~result.success
                  ELSE GroupErrorsOf(errors, K) = {}
            /\ \A k \in ErrorsOfKind(errors, "group_capacity") :
                  SeqRange(errors[k].guestIds) \in components

\* a chain of three guests, one of them a witness, is held to the honor table's
\* capacity and rejected, although it would fit a table
C16_Witness ==
    /\ Finished
    /\ \E K \in OversizedGroups :
          /\ Cardinality(K) = 3
          /\ Cardinality(K) <= input.configuration.seatsPerTable
          /\ GroupErrorsFor(K) # {}

\* C18: no step of a run changes the input: the guests, in their order and with
\* their fields, the couples, the exclusions and the configuration are at the
\* return what they were at the call, whether the run succeeds or fails.
C18_InputUnchanged == [][input' = input]_vars

\* a run has sorted its guests into another order than the input's and returned
C18_Witness ==
    /\ Succeeded
    /\ Len(orderedGuests) >= 2
    /\ \E i, j \in 1..Len(orderedGuests) : i < j /\ orderedGuests[i] > orderedGuests[j]
    /\ \A g \in AllGuestIds : input.guests[g].id = g

\* C19 as stated: a unit that found no seat is not searched a seat again, so a
\* guest is named in one cannot-place warning at most.
CannotPlaceWarningsOf(ws, g) ==
    {w \in 1..Len(ws) :
        ws[w].message \in CannotPlaceMessages /\ g \in SeqRange(ws[w].guestIds)}

C19_Original ==
    \A g \in AllGuestIds : Cardinality(CannotPlaceWarningsOf(warnings, g)) <= 1

\* C20 as stated: when a guest belongs to more than one couple, the guests that
\* the couples connect are placed as one unit: after a successful run the seated
\* members of such a component all sit at the same table.
ChainedComponents ==
    {K \in CoupleComponents : \E g \in K : Cardinality(CouplesOf(g)) > 1}

C20_Original ==
    Succeeded =>
        \A K \in ChainedComponents :
            \A a, b \in K : ~SplitAcrossTables(result.tables, a, b)

\* C11: with the random criterion off, two calls on the same guests, couples,
\* exclusions and configuration return the same outcome, the same sequence of
\* guests at every table number and the same warnings, whatever ids generateId
\* gave the tables of each call.
SecondCallReturned == Finished /\ previous.calls = 1

SameButIds(r1, r2) ==
    /\ r1.success = r2.success
    /\ r1.errors = r2.errors
    /\ r1.warnings = r2.warnings
    /\ Len(r1.tables) = Len(r2.tables)
    /\ \A i \in 1..Len(r1.tables) :
          /\ r1.tables[i].number = r2.tables[i].number
          /\ r1.tables[i].capacity = r2.tables[i].capacity
          /\ r1.tables[i].guests = r2.tables[i].guests

C11_SameAssignmentWithoutRandom ==
    (/\ SecondCallReturned
     /\ previous.input = input
     /\ ~input.configuration.sortingCriteria.random)
        => SameButIds(previous.result, result)

\* two calls whose tables got other ids, family grouping on, a family table mapped
C11_Witness ==
    /\ SecondCallReturned
    /\ previous.input = input
    /\ result.success
    /\ ~input.configuration.sortingCriteria.random
    /\ input.configuration.sortingCriteria.byFamily
    /\ DOMAIN familyTableMap # {}
    /\ \E i \in 1..Len(result.tables) :
          /\ result.tables[i].id # previous.result.tables[i].id
          /\ Len(result.tables[i].guests) >= 2

\* C14: the random criterion changes nothing but the order of the guests inside
\* the tables other than the honor table: against the call with the criterion
\* off, every table holds the same guests, the honor table in the same order, and
\* the warnings are the same.
IsPermutationOf(s, t) ==
    /\ Len(s) = Len(t)
    /\ \A x \in SeqRange(s) \cup SeqRange(t) :
          Cardinality({i \in 1..Len(s) : s[i] = x}) = Cardinality({i \in 1..Len(t) : t[i] = x})

C14_RandomOnlyReordersInsideTables ==
    (/\ SecondCallReturned
     /\ input.configuration.sortingCriteria.random
     /\ previous.input =
            [input EXCEPT !.configuration.sortingCriteria.random = FALSE])
        => /\ result.success = previous.result.success
           /\ result.errors = previous.result.errors
           /\ result.warnings = previous.result.warnings
           /\ Len(result.tables) = Len(previous.result.tables)
           /\ \A i \in 1..Len(result.tables) :
                 /\ result.tables[i].number = previous.result.tables[i].number
                 /\ IsPermutationOf(result.tables[i].guests,
                                    previous.result.tables[i].guests)
                 /\ result.tables[i].number = 1 =>
                        result.tables[i].guests = previous.result.tables[i].guests

\* the shuffle has changed the order inside a table, the honor table is seated
C14_Witness ==
    /\ SecondCallReturned
    /\ result.success
    /\ input.configuration.sortingCriteria.random
    /\ ~previous.input.configuration.sortingCriteria.random
    /\ Len(result.tables[1].guests) >= 1
    /\ \E i \in 2..Len(result.tables) :
          result.tables[i].guests # previous.result.tables[i].guests

\* C17: on every input, couples and exclusions that name an id no guest has,
\* pair a guest with itself, chain or cycle included, and tables or seats down
\* to 0, generate reaches its return, and the result it returns is complete:
\* a failure with the errors of the validation and nothing else, or, once the
\* validation has passed, a success without errors that holds every configured
\* table, the seats that were missing or excluded reported as warnings only.
CompleteResult ==
    /\ result.success = Validation.isValid
    /\ result.success =>
          /\ result.errors = <<>>
          /\ Len(result.tables) = input.configuration.numberOfTables + 1
          /\ result.warnings = warnings
    /\ ~result.success =>
          /\ result.errors # <<>>
          /\ result.tables = <<>>
          /\ result.warnings = <<>>

C17_TerminatesWithCompleteResult ==
    /\ <>Finished
    /\ [](Finished => CompleteResult)

\* a success although a couple names an id no guest has and a unit found no seat
C17_Witness ==
    /\ Finished
    /\ result.success
    /\ \E i \in 1..Len(input.couples) :
          input.couples[i].guestBId > Len(input.guests)
    /\ \E i \in 1..Len(result.warnings) :
          result.warnings[i].message \in {"cannot_place_honor_full",
                                          "cannot_place_honor_exclusion"}

\* C21 as stated: in the order in which the remaining guests are offered to
\* placement, every guest that an exclusion names comes before every guest that
\* none names, with family grouping and without.
JustSequenced == pc = "place" /\ cursor = 1

Referenced(g) == \E k \in 1..Len(input.exclusions) : g \in PairOf(input.exclusions[k])

IsFiller(g) == IsAutoGeneratedGuest(input.guests[g])

SameSequencingClass(a, b) ==
    /\ IsFiller(a) = IsFiller(b)
    /\ input.configuration.sortingCriteria.byFamily =>
          /\ CouplesOf(a) = {}
          /\ CouplesOf(b) = {}
          /\ ~IsFiller(a) => FamilyKey(input.guests[a]) = FamilyKey(input.guests[b])

PartnerOfRealGuest(g) ==
    \E k \in CouplesOf(g) : PartnerIn(k, g) \in AllGuestIds /\ ~IsFiller(PartnerIn(k, g))

FillersAfterRealGuests ==
    JustSequenced =>
        /\ \A i, j \in 1..Len(orderedGuests) :
              (i < j /\ IsFiller(orderedGuests[i]) /\ ~IsFiller(orderedGuests[j])) =>
                  /\ input.configuration.sortingCriteria.byFamily
                  /\ PartnerOfRealGuest(orderedGuests[i])
        /\ \A i \in 1..Len(orderedGuests) :
              IsFiller(orderedGuests[i]) =>
                  \E k \in i..Len(orderedGuests) :
                      /\ orderedGuests[k] = orderedGuests[i]
                      /\ \A j \in k..Len(orderedGuests) : IsFiller(orderedGuests[j])

RealGuestsWaiting ==
    {orderedGuests[j] : j \in (cursor + 1)..Len(orderedGuests)} \
        ({g \in AllGuestIds : IsFiller(g)} \cup placedGuestIds')

NoFillerSeatedBeforeRealGuest ==
    (/\ pc = "place" /\ pc' = "place"
     /\ lastStep'.table # NoTable
     /\ \E g \in SeqRange(lastStep'.unit) : IsFiller(g)
     /\ RealGuestsWaiting # {}) =>
        /\ \E g \in SeqRange(lastStep'.unit) : ~IsFiller(g)
        /\ IsFiller(lastStep'.guest) => input.configuration.sortingCriteria.byFamily

SeatedWithoutWarning(i, unit) ==
    /\ tables' = [tables EXCEPT ![i].guests = @ \o unit]
    /\ warnings' = warnings

MappedTables(lead) ==
    IF /\ input.configuration.sortingCriteria.byFamily
       /\ FamilyOf(lead) # <<>>
       /\ FamilyOf(lead) \in DOMAIN familyTableMap
    THEN {i \in 2..Len(tables) : tables[i].id = familyTableMap[FamilyOf(lead)]}
    ELSE {}

FreeTables(unit) == {i \in 2..Len(tables) : FreeFor(tables[i], unit)}

UnitOffered ==
    /\ pc = "place" /\ pc' = "place"
    /\ orderedGuests[cursor] \notin placedGuestIds

PreferredTableFirst ==
    UnitOffered =>
        LET lead == orderedGuests[cursor]
            unit == lastStep'.unit
            free == FreeTables(unit)
        IN  /\ \A i \in MappedTables(lead) \cap free : SeatedWithoutWarning(i, unit)
            /\ (MappedTables(lead) \cap free = {} /\ free # {}) =>
                  SeatedWithoutWarning(CHOOSE i \in free : \A k \in free : i <= k, unit)

C23_PreferredTableFirst == [][PreferredTableFirst]_vars

\* a guest has joined its family at table 3 although table 2 had room for it and
\* seated nobody it excludes
C23_Witness ==
    /\ pc = "place"
    /\ lastStep.table = 3
    /\ Len(lastStep.unit) = 1
    /\ FamilyOf(lastStep.guest) \in DOMAIN familyTableMap
    /\ Len(tables[3].guests) >= 2
    /\ FreeFor(tables[2], lastStep.unit)

\* C24: a unit that its family's table does not take is seated at the
\* lowest-numbered non-honor table that has room for the whole unit and seats
\* no guest a member of the unit excludes, and at no other table; every table
\* of a lower number is full for the unit or seats such a guest.
TablesChanged == {i \in 1..Len(tables) : tables'[i] # tables[i]}

FailsATest(tbl, unit) ==
    \/ Len(tbl.guests) + Len(unit) > input.configuration.seatsPerTable
    \/ \E n \in 1..Len(unit) : \E e \in 1..Len(tbl.guests) :
          \E k \in 1..Len(input.exclusions) :
              PairOf(input.exclusions[k]) = {unit[n], tbl.guests[e]}

FirstFreeTableTaken ==
    (UnitOffered /\ MappedTables(orderedGuests[cursor]) \cap FreeTables(lastStep'.unit) = {}) =>
        LET unit == lastStep'.unit
            passing == {i \in 2..Len(tables) : ~FailsATest(tables[i], unit)}
        IN  /\ passing # {} =>
                  \E i \in passing :
                      /\ TablesChanged = {i}
                      /\ tables'[i].guests = tables[i].guests \o unit
                      /\ \A j \in 2..(i - 1) : FailsATest(tables[j], unit)
            /\ \A i \in TablesChanged \cap passing :
                  \A j \in 2..(i - 1) : FailsATest(tables[j], unit)

C24_FirstFreeTableTaken == [][FirstFreeTableTaken]_vars

\* the scan passed table 2, which had room but seated a guest the unit excludes,
\* and took table 3
C24_Witness ==
    /\ pc = "place"
    /\ lastStep.path = "scan"
    /\ lastStep.table = 3
    /\ Len(tables[2].guests) + Len(lastStep.unit) <= input.configuration.seatsPerTable
    /\ ExcludedAt(tables[2], lastStep.unit)

\* C25: when no non-honor table has room for a unit and no guest it excludes,
\* the unit is seated at the lowest-numbered non-honor table that has room,
\* however many exclusions that breaks; the step pushes one warning for each
\* pair of a unit member and a guest seated there that an exclusion names, its
\* guestIds being that pair, and no other warning.  A unit seated at a table
\* that has room and no excluded guest gets no warning.
WarningsPushed == SubSeq(warnings', Len(warnings) + 1, Len(warnings'))

RoomyTables(unit) ==
    {i \in 2..Len(tables) :
        Len(tables[i].guests) + Len(unit) <= input.configuration.seatsPerTable}

BrokenPairs(tbl, unit) ==
    {p \in (1..Len(unit)) \X (1..Len(tbl.guests)) :
        \E k \in 1..Len(input.exclusions) :
            PairOf(input.exclusions[k]) = {unit[p[1]], tbl.guests[p[2]]}}

BestEffortWarnsEveryPair ==
    UnitOffered =>
        LET unit == lastStep'.unit
            roomy == RoomyTables(unit)
        IN  /\ (FreeTables(unit) = {} /\ roomy # {}) =>
                  LET i == CHOOSE r \in roomy : \A k \in roomy : r <= k
                  IN  /\ tables' = [tables EXCEPT ![i].guests = @ \o unit]
                      /\ Len(WarningsPushed) = Cardinality(BrokenPairs(tables[i], unit))
                      /\ \A p \in BrokenPairs(tables[i], unit) :
                            Cardinality({w \in 1..Len(WarningsPushed) :
                                            WarningsPushed[w].guestIds =
                                                <<unit[p[1]], tables[i].guests[p[2]]>>}) = 1
            /\ FreeTables(unit) # {} => warnings' = warnings

C25_BestEffortWarnsEveryPair == [][BestEffortWarnsEveryPair]_vars

\* a guest has joined, best effort, a table that seats two guests it excludes:
\* two warnings
C25_Witness ==
    /\ pc = "place"
    /\ lastStep.path = "best_effort"
    /\ Len(warnings) >= 2
    /\ warnings[Len(warnings)].guestIds[1] = lastStep.guest
    /\ warnings[Len(warnings) - 1].guestIds[1] = lastStep.guest
    /\ warnings[Len(warnings)].guestIds # warnings[Len(warnings) - 1].guestIds

\* C26: section 3 seats at the honor table only guests of an honor role and
\* guests coupled with one; afterwards a unit joins the honor table only in a
\* step where no non-honor table has room for it, the honor table has room for
\* it and seats no guest it excludes, and the step pushes a warning that names
\* the unit; when no non-honor table has room and the honor table is full for
\* the unit or seats a guest it excludes, no table changes and a cannot-place
\* warning names the unit.
PushedFor(unit, messages) ==
    \E w \in 1..Len(WarningsPushed) :
        /\ WarningsPushed[w].guestIds = unit
        /\ WarningsPushed[w].message \in messages

HonorTableLastResort ==
    /\ (pc = "honor" /\ pc' = "sequence") =>
          SeqRange(tables'[1].guests) \subseteq HonorMembers
    /\ (pc = "place" /\ pc' = "place" /\ ~UnitOffered) => tables' = tables
    /\ UnitOffered =>
          LET unit == lastStep'.unit
              honorFits == Len(tables[1].guests) + Len(unit) <= tables[1].capacity
              honorFree == honorFits /\ ~ExcludedAt(tables[1], unit)
          IN  /\ tables'[1] # tables[1] =>
                    /\ RoomyTables(unit) = {}
                    /\ honorFree
                    /\ tables' = [tables EXCEPT ![1].guests = @ \o unit]
                    /\ PushedFor(unit, {"honor_table_last_resort"})
              /\ (RoomyTables(unit) = {} /\ honorFree) => tables'[1] # tables[1]
              /\ (RoomyTables(unit) = {} /\ ~honorFree) =>
                    /\ tables' = tables
                    /\ PushedFor(unit, CannotPlaceMessages)
                    /\ Len(WarningsPushed) = 1

C26_HonorTableLastResort == [][HonorTableLastResort]_vars

\* a regular guest has joined a witness at the honor table, for lack of room
\* elsewhere, although an exclusion names the guest
C26_Witness ==
    /\ pc = "place"
    /\ lastStep.path = "honor_last_resort"
    /\ Len(tables[1].guests) > Len(lastStep.unit)
    /\ Referenced(lastStep.guest)
    /\ \E w \in 1..Len(warnings) : warnings[w].guestIds = lastStep.unit


\* the guests with a family name that sit at a non-honor table
FamilySeated ==
    {g \in AllGuestIds : /\ FamilyOf(g) # <<>>
                         /\ \E i \in 2..Len(tables) : g \in SeqRange(tables[i].guests)}

\* C27 as stated: every family with a guest at a non-honor table is mapped,
\* to a non-honor table that seats a guest of the family.
FamilyMapSound ==
    \A k \in DOMAIN familyTableMap :
        \E i \in 2..Len(tables) :
            /\ tables[i].id = familyTableMap[k]
            /\ \E g \in SeqRange(tables[i].guests) : FamilyOf(g) = k

C27_Original ==
    pc \in {"place", "done"} =>
        /\ FamilyMapSound
        /\ \A g \in FamilySeated : FamilyOf(g) \in DOMAIN familyTableMap

\* C27, amended: the map is filled only when family grouping is enabled.  Then
\* every family with a guest at a non-honor table is mapped; at any time a
\* mapped family points to a non-honor table that seats one of its guests; a
\* mapping never changes; a family becomes mapped only in a step that seats
\* one of its guests at a non-honor table, and to that table; a step that
\* seats guests at the honor table maps nothing.
FamilyMapComplete ==
    (pc \in {"place", "done"} /\ input.configuration.sortingCriteria.byFamily) =>
        \A g \in FamilySeated : FamilyOf(g) \in DOMAIN familyTableMap

FamilyMapWriteOnce ==
    /\ \A k \in DOMAIN familyTableMap :
          k \in DOMAIN familyTableMap' /\ familyTableMap'[k] = familyTableMap[k]
    /\ \A k \in DOMAIN familyTableMap' \ DOMAIN familyTableMap :
          /\ UnitOffered
          /\ input.configuration.sortingCriteria.byFamily
          /\ \E i \in 2..Len(tables) :
                /\ TablesChanged = {i}
                /\ familyTableMap'[k] = tables[i].id
                /\ \E n \in 1..Len(lastStep'.unit) : FamilyOf(lastStep'.unit[n]) = k
                /\ k # <<>> =>
                      \A j \in 2..Len(tables) :
                          \A g \in SeqRange(tables[j].guests) : FamilyOf(g) # k
    /\ 1 \in TablesChanged => familyTableMap' = familyTableMap

C27_FamilyMapWriteOnce ==
    /\ [](FamilyMapSound /\ FamilyMapComplete)
    /\ [][FamilyMapWriteOnce]_vars

\* two guests of one family sit at two non-honor tables and the family is
\* mapped to the table of the one seated first
C27_Witness ==
    /\ pc = "place"
    /\ lastStep.path \in {"scan", "best_effort"}
    /\ FamilyOf(lastStep.guest) \in DOMAIN familyTableMap
    /\ familyTableMap[FamilyOf(lastStep.guest)] # tables[lastStep.table].id


\* C28: findCoupleGroups returns the connected components of the couple graph
\* that have two guests or more, each once: no guest is twice in a group or in
\* two groups, two guests share a group exactly when a chain of couples links
\* them, and a guest of no couple is in no group; chains that cycle are
\* traversed to the end.
CoupleGroups == FindCoupleGroups(input.guests, input.couples)

GroupsOf(groups, g) == {i \in 1..Len(groups) : g \in SeqRange(groups[i])}

C28_CoupleGroupsAreComponents ==
    Finished =>
        LET groups == CoupleGroups
        IN  /\ {SeqRange(groups[i]) : i \in 1..Len(groups)} = CoupleComponents
            /\ \A i \in 1..Len(groups) :
                  /\ Len(groups[i]) >= 2
                  /\ Cardinality(SeqRange(groups[i])) = Len(groups[i])
                  /\ SeqRange(groups[i]) \subseteq AllGuestIds
            /\ \A g \in AllGuestIds :
                  /\ Cardinality(GroupsOf(groups, g)) <= 1
                  /\ CouplesOf(g) = {} => GroupsOf(groups, g) = {}
            /\ \A a, b \in AllGuestIds :
                  a # b => (GroupsOf(groups, a) \cap GroupsOf(groups, b) # {}
                               <=> b \in CoupleClosure({a}))

\* three guests that couples link in a cycle form one group, the fourth guest
\* is in none
C28_Witness ==
    /\ Finished
    /\ Len(input.couples) = 3
    /\ Len(CoupleGroups) = 1
    /\ Len(CoupleGroups[1]) = 3
    /\ Len(input.guests) = 4


\* C29: with unique guest ids and couples of two distinct guests, no guest
\* holds two seats, on one table or on two, at any step of a run or in the
\* result, and a seated guest stays at its table until the end of the run.
DistinctCoupleMembers ==
    \A i \in 1..Len(input.couples) :
        input.couples[i].guestAId # input.couples[i].guestBId

SeatedAtMostOnce ==
    DistinctCoupleMembers =>
        /\ \A g \in AllGuestIds : Occurrences(tables, g) <= 1
        /\ Finished /\ Succeeded =>
              \A g \in AllGuestIds : Occurrences(result.tables, g) <= 1

SeatedGuestsStay ==
    DistinctCoupleMembers =>
        \A g \in AllGuestIds :
            TablesOf(tables, g) # {} => TablesOf(tables', g) = TablesOf(tables, g)

C29_SeatedOnceAndForGood == []SeatedAtMostOnce /\ [][SeatedGuestsStay]_vars

\* a run ends with every guest seated once although a guest is in two couples
\* and was met again in the loop after its partner had seated it
C29_Witness ==
    /\ Finished
    /\ Succeeded
    /\ \E g \in AllGuestIds : Cardinality(CouplesOf(g)) = 2
    /\ \A g \in AllGuestIds : Occurrences(result.tables, g) = 1


\* C30: without couples, when the non-honor tables have a seat for every guest
\* without an honor role, a successful run seats every guest once, the guests
\* without an honor role at non-honor tables; no step of the loop falls back on
\* the honor table or leaves a guest unplaced, and no warning says so, whatever
\* the exclusions and the sorting criteria.
NonHonorGuests == {g \in AllGuestIds : ~IsHonorRole(input.guests[g])}

EnoughSeatsWithoutCouples ==
    /\ input.couples = <<>>
    /\ input.configuration.numberOfTables * input.configuration.seatsPerTable
          >= Cardinality(NonHonorGuests)

LastResortMessages == CannotPlaceMessages \cup {"honor_table_last_resort"}

C30_EveryGuestSeated ==
    EnoughSeatsWithoutCouples =>
        /\ pc = "place" => lastStep.path \notin {"honor_last_resort", "unplaced"}
        /\ Succeeded =>
              /\ \A g \in AllGuestIds : Occurrences(result.tables, g) = 1
              /\ \A g \in NonHonorGuests : 1 \notin TablesOf(result.tables, g)
              /\ \A w \in 1..Len(result.warnings) :
                    result.warnings[w].message \notin LastResortMessages

\* the tables have exactly as many seats as there are guests to seat, an
\* exclusion left no conflict-free seat, and all guests are seated
C30_Witness ==
    /\ Succeeded
    /\ EnoughSeatsWithoutCouples
    /\ input.configuration.numberOfTables * input.configuration.seatsPerTable
          = Cardinality(NonHonorGuests)
    /\ Cardinality(NonHonorGuests) >= 2
    /\ \E w \in 1..Len(result.warnings) :
          result.warnings[w].message = "same_table_despite_exclusion"
    /\ \A g \in AllGuestIds : Occurrences(result.tables, g) = 1

====
